---- MODULE Spec2Model ----
(***************************************************************************)
(* RK3588 SD/MMC controller driver (drivers/mmc/src/lib.rs) as a state     *)
(* machine.  Every volatile register access of the driver is one step; the *)
(* controller is the environment: it supplies the value of every read.     *)
(*                                                                         *)
(* A u32 is the pair <<hi, lo>> of its 16-bit halves, so that bit 31 and   *)
(* the wrap of u32 arithmetic are represented exactly.                     *)
(***************************************************************************)
EXTENDS Integers, Sequences, FiniteSets, TLC

(* ------------------------------ u32 ----------------------------------- *)

Half == 65536

\* the u32 with the value n, for 0 <= n < 2^31
U32(n) == <<n \div Half, n % Half>>

\* the value of a u32 below 2^31
ToInt(v) == v[1] * Half + v[2]

RECURSIVE BitAnd(_, _)
BitAnd(a, b) ==
    IF a = 0 \/ b = 0 THEN 0
    ELSE (IF a % 2 = 1 /\ b % 2 = 1 THEN 1 ELSE 0) + 2 * BitAnd(a \div 2, b \div 2)

RECURSIVE BitOr(_, _)
BitOr(a, b) ==
    IF a = 0 THEN b
    ELSE IF b = 0 THEN a
    ELSE (IF a % 2 = 1 \/ b % 2 = 1 THEN 1 ELSE 0) + 2 * BitOr(a \div 2, b \div 2)

\* x & y and x | y on u32
And32(x, y) == <<BitAnd(x[1], y[1]), BitAnd(x[2], y[2])>>
Or32(x, y) == <<BitOr(x[1], y[1]), BitOr(x[2], y[2])>>

\* x << n on u32, for x < 2^16 and n < 32 (the bits shifted past bit 31 are lost)
Shl32(x, n) ==
    IF n >= 16 THEN <<(x * 2^(n - 16)) % Half, 0>>
    ELSE <<((x * 2^n) \div Half) % Half, (x * 2^n) % Half>>

Zero32 == <<0, 0>>

(* ------------------------ registers and bits -------------------------- *)

SDMMC_CTRL == 0
SDMMC_PWREN == 4
SDMMC_CLKDIV == 8
SDMMC_CLKENA == 16
SDMMC_TMOUT == 20
SDMMC_CTYPE == 24
SDMMC_CMDARG == 40
SDMMC_CMD == 44
SDMMC_RESP0 == 48
SDMMC_FIFOTH == 76
SDMMC_CDETECT == 80

\* the registers the driver writes, and the registers it reads
WrittenRegs == {SDMMC_CTRL, SDMMC_PWREN, SDMMC_CLKDIV, SDMMC_CLKENA, SDMMC_TMOUT,
                SDMMC_CTYPE, SDMMC_CMDARG, SDMMC_CMD, SDMMC_FIFOTH}
ReadRegs == {SDMMC_CDETECT, SDMMC_CTRL, SDMMC_CMD, SDMMC_RESP0}

CTRL_RESET == Shl32(1, 0)
CTRL_FIFO_RESET == Shl32(1, 1)
CTRL_DMA_RESET == Shl32(1, 2)

CMD_START == Shl32(1, 31)
CMD_WAIT_PRVDATA == Shl32(1, 13)

\* the iteration budget of each polling loop
ResetBudget_Short == 10000 - 1
ResetBudget == 10000
UpdateClockBudget == 10000
CommandBudget_Long == 10000 + 1
CommandBudget == 10000

\* the source clock set_clock assumes, and init's arguments
SRC_CLK == 50000000
IDENT_FREQ == 400000
INIT_BUS_WIDTH == 1
INIT_TIMEOUT == 16777215

(* ----------------------------- bounds --------------------------------- *)

\* The controller completes an operation after some number of reads that still
\* show it pending.  That number is drawn from: 0..EarlyBusy (prompt hardware),
\* the LateBusy+1 values that end at budget-1 (completion seen at the very end
\* of the budget) and the budget itself (no read within the budget sees it).
EarlyBusy == 0
LateBusy == 0

HwLatencies(budget) ==
    (0 .. EarlyBusy) \cup ((budget - 1 - LateBusy) .. (budget - 1)) \cup {budget}

(* ------------------------- pure computations -------------------------- *)

\* card_detect: bit 0 of the Card Detect register clear means a card is present
CardDetect_Inverted(v) == And32(v, U32(1)) # Zero32
CardDetect(v) == And32(v, U32(1)) = Zero32

\* reset's loop condition: any of the three reset bits still set
ResetPending(v) == And32(v, U32(7)) # Zero32

\* the loop condition of update_clock and send_command: the start bit still set
StartPending(v) == And32(v, CMD_START) # Zero32

\* the value reset writes
ResetBits == Or32(Or32(CTRL_RESET, CTRL_FIFO_RESET), CTRL_DMA_RESET)

\* the value update_clock writes
UpdateClockCmd == Or32(Or32(CMD_START, CMD_WAIT_PRVDATA), Shl32(1, 21))

\* the value send_command writes to the Command register
CommandWord(cmd) == Or32(CMD_START, cmd)

\* 2 * freq in u32: the wrapped product, and whether it overflowed
Mul2Wrapped(f) == <<(2 * f[1] + (2 * f[2]) \div Half) % Half, (2 * f[2]) % Half>>
Mul2Overflows(f) == f[1] >= Half \div 2

\* src_clk / d in u32, for d # 0 (src_clk < 2^31, so the quotient is 0 for d >= 2^31)
DivSrcClk(d) == IF d[1] >= Half \div 2 THEN 0 ELSE SRC_CLK \div ToInt(d)

\* set_clock's divisor: what the computation can produce.  An overflowing
\* 2 * freq panics when overflow checks are compiled in and wraps when they are
\* not; a division by zero panics in every build.
Panicked == [panic |-> TRUE, div |-> Zero32]
Divisor(n) == [panic |-> FALSE, div |-> U32(n % 256)]
ClockDivisor(freq) ==
    IF freq = Zero32 THEN {Divisor(0)}
    ELSE IF ~Mul2Overflows(freq) THEN {Divisor(DivSrcClk(Mul2Wrapped(freq)))}
    ELSE {Panicked} \cup
         (IF Mul2Wrapped(freq) = Zero32 THEN {Panicked}
          ELSE {Divisor(DivSrcClk(Mul2Wrapped(freq)))})

\* set_bus_width's encoding
BusWidthEncoding_Linear(width) ==
    IF width = U32(1) THEN U32(0)
    ELSE IF width = U32(4) THEN U32(1)
    ELSE IF width = U32(8) THEN U32(2)
    ELSE U32(0)
BusWidthEncoding(width) ==
    IF width = U32(1) THEN U32(0)
    ELSE IF width = U32(4) THEN U32(1)
    ELSE IF width = U32(8) THEN U32(65536)
    ELSE U32(0)

\* configure_fifo's packed value
FifoThreshold_Swapped == Or32(Or32(Shl32(8, 16), Shl32(7, 0)), Shl32(2, 28))
FifoThreshold == Or32(Or32(Shl32(7, 16), Shl32(8, 0)), Shl32(2, 28))

(* --------------------------- environment ------------------------------ *)

\* what a read of Card Detect can return
CDetectValues == {U32(0), U32(2), U32(1), U32(3), <<65535, 65534>>, <<65535, 65535>>}

\* what a read of Control returns while the reset is pending, and once it is done
CtrlPendingValues == {U32(7), U32(4), <<65535, 65534>>}
CtrlDoneValues == {U32(0), <<65535, 65528>>}

\* what a read of Command returns while the start bit is set, and once it is clear
CmdPendingValues == {CMD_START, <<65535, 65535>>}
CmdDoneValues == {U32(0), <<32767, 65535>>}

\* what a read of Response 0 can return
RespValues == {U32(0), U32(426), U32(2147483647), CMD_START, <<65535, 65535>>,
               <<255, 32768>>}

(* ------------------------------ state --------------------------------- *)

VARIABLES
    pc,         \* the driver's position: "idle", a step of a call, "done", "panic"
    op,         \* the call in flight: "init", "send_command", "card_detect", ...
    ra,         \* where update_clock returns to
    args,       \* the call's arguments [cmd, arg, freq, width]
    regs,       \* the last value written to each writable register
    entryRegs,  \* regs at the call's entry
    wlog,       \* the writes of the call, in order: <<offset, value>>
    reads,      \* the number of reads of the call, per register
    timeout,    \* the running loop's counter
    polls,      \* the reads of the polled register since the last trigger write
    hwLatency,  \* how many reads show the triggered operation still pending
    cdBit,      \* bit 0 of the Card Detect value the call read (2: not read)
    hwResp,     \* the value the Response 0 register held when read
    result,     \* "none", "Ok", "true", "false" or an MmcError
    retval,     \* the u32 an Ok of send_command carries
    conc,       \* two execution contexts calling send_command on one controller
    gpio,       \* the GPIO driver: a call of parse_gpio_name / GpioPin::new
    uart        \* the UART driver: a call of puts

\* the state of the SD/MMC driver run by a single caller, and the rest
mmc == <<pc, op, ra, args, regs, entryRegs, wlog, reads, timeout, polls,
         hwLatency, cdBit, hwResp, result, retval>>
others == <<conc, gpio, uart>>
vars == <<pc, op, ra, args, regs, entryRegs, wlog, reads, timeout, polls,
          hwLatency, cdBit, hwResp, result, retval, conc, gpio, uart>>

NoArgs ==
    [cmd |-> Zero32, arg |-> Zero32, freq |-> Zero32, width |-> Zero32,
     block_addr |-> Zero32]
NoReads == [r \in ReadRegs |-> 0]

\* retval while no call has returned a value
NoValue == <<>>

\* no command: what the controller has latched before any start-bit write
NoCommand == <<Zero32, Zero32>>

\* an execution context that has not called send_command
CtxIdle ==
    [pc |-> "idle", cmd |-> Zero32, arg |-> Zero32, paired |-> NoValue,
     overlapped |-> FALSE, result |-> "none", respOf |-> NoCommand]

\* the execution contexts
Contexts == {1, 2}

\* two idle contexts and a controller at rest
ConcIdle ==
    [ctx |-> [c \in Contexts |-> CtxIdle], cmdarg |-> Zero32, busy |-> FALSE,
     latched |-> NoCommand, respOf |-> NoCommand]

\* the GPIO driver before any call
GpioIdle ==
    [pc |-> "idle", op |-> "none", bank |-> 0, group |-> 0, pin |-> 0,
     ret_bank |-> "none", ret_pin |-> 0, new_bank |-> "none", new_pin |-> 0,
     base |-> Zero32, self_pin |-> 0, log |-> <<>>, level |-> "none",
     dr |-> Zero32, ddr |-> Zero32, entry_dr |-> Zero32, entry_ddr |-> Zero32,
     call |-> "none", arg |-> "none", val |-> Zero32,
     prev_call |-> "none", prev_arg |-> "none", prev_dr |-> Zero32,
     prev_ddr |-> Zero32, returns |-> 0]

\* the UART driver before any call
UartIdle ==
    [pc |-> "idle", s |-> <<>>, i |-> 0, stage |-> "none", byte |-> 0,
     lsr |-> NoValue, spins |-> 0, out |-> <<>>, seen |-> <<>>]

\* the registers as the hardware reset leaves them, and as a successful init does
ResetRegs == [r \in WrittenRegs |-> Zero32]

Init ==
    /\ pc = "idle"
    /\ op = "none"
    /\ ra = "none"
    /\ args = NoArgs
    /\ regs = ResetRegs
    /\ entryRegs = ResetRegs
    /\ wlog = <<>>
    /\ reads = NoReads
    /\ timeout = 0
    /\ polls = 0
    /\ hwLatency = 0
    /\ cdBit = 2
    /\ hwResp = Zero32
    /\ result = "none"
    /\ retval = NoValue
    /\ conc = ConcIdle
    /\ gpio = GpioIdle
    /\ uart = UartIdle

(* ----------------------------- helpers -------------------------------- *)

\* write_volatile and read_volatile
Write(off, v) ==
    /\ regs' = [regs EXCEPT ![off] = v]
    /\ wlog' = Append(wlog, <<off, v>>)
CountRead(off) == reads' = [reads EXCEPT ![off] = @ + 1]

\* a call starts: its history is empty
Enter(name, a, first) ==
    /\ pc' = first
    /\ op' = name
    /\ args' = a
    /\ entryRegs' = regs
    /\ wlog' = <<>>
    /\ reads' = NoReads
    /\ timeout' = 0
    /\ polls' = 0
    /\ hwLatency' = 0
    /\ cdBit' = 2
    /\ hwResp' = Zero32
    /\ result' = "none"
    /\ retval' = NoValue
    /\ UNCHANGED <<ra, regs>>
    /\ UNCHANGED others

\* the call returns r
Finish(r) == pc' = "done" /\ result' = r

\* a trigger write: the hardware starts the operation and the loop its budget
Trigger(budget) ==
    /\ timeout' = budget
    /\ polls' = 0
    /\ hwLatency' \in HwLatencies(budget)

(* ------------------------------ init ---------------------------------- *)

CallInit_Cached ==
    /\ pc = "idle"
    /\ Enter("init", NoArgs,
             IF regs[SDMMC_PWREN] = U32(1) THEN "fifoth_write" ELSE "cd_read")
CallInit ==
    /\ pc = "idle"
    /\ Enter("init", NoArgs, "cd_read")

CallCardDetect ==
    /\ pc = "idle"
    /\ Enter("card_detect", NoArgs, "cd_read")

\* card_detect (lines 205-211), called by init (72-74) or by the caller
CardDetectRead ==
    /\ pc = "cd_read"
    /\ \E v \in CDetectValues :
        /\ cdBit' = v[2] % 2
        /\ IF op = "init"
             THEN IF ~CardDetect(v)
                    THEN Finish("CardNotPresent")
                    ELSE pc' = "reset_write" /\ UNCHANGED result
             ELSE Finish(IF CardDetect(v) THEN "true" ELSE "false")
    /\ CountRead(SDMMC_CDETECT)
    /\ UNCHANGED <<op, ra, args, regs, entryRegs, wlog, timeout, polls, hwLatency,
                   hwResp, retval>>
    /\ UNCHANGED others

\* reset: the write of the three reset bits (103-109)
ResetWrite ==
    /\ pc = "reset_write"
    /\ Write(SDMMC_CTRL, ResetBits)
    /\ Trigger(ResetBudget)
    /\ pc' = "reset_poll"
    /\ UNCHANGED <<op, ra, args, entryRegs, reads, cdBit, hwResp, result, retval>>
    /\ UNCHANGED others

\* reset: what the loop does once its budget is spent (112-114)
ResetExhausted_RetriesOnce ==
    IF Len(wlog) < 2
      THEN pc' = "reset_write" /\ UNCHANGED result
      ELSE Finish("ResetTimeout")
ResetExhausted == Finish("ResetTimeout")

\* reset: one iteration of the polling loop (110-117)
ResetPoll ==
    /\ pc = "reset_poll"
    /\ \E v \in (IF polls < hwLatency THEN CtrlPendingValues ELSE CtrlDoneValues) :
        IF ResetPending(v)
          THEN /\ timeout' = timeout - 1
               /\ IF timeout' = 0
                    THEN ResetExhausted
                    ELSE UNCHANGED <<pc, result>>
          ELSE /\ pc' = "pwren_write"
               /\ UNCHANGED <<timeout, result>>
    /\ polls' = polls + 1
    /\ CountRead(SDMMC_CTRL)
    /\ UNCHANGED <<op, ra, args, regs, entryRegs, wlog, hwLatency, cdBit, hwResp,
                   retval>>
    /\ UNCHANGED others

\* power_on (121-126)
PowerOn ==
    /\ pc = "pwren_write"
    /\ Write(SDMMC_PWREN, U32(1))
    /\ pc' = "clkena_off"
    /\ UNCHANGED <<op, ra, args, entryRegs, reads, timeout, polls, hwLatency, cdBit,
                   hwResp, result, retval>>
    /\ UNCHANGED others

\* set_clock: disable the clock (135), then update_clock (136)
ClockDisable_Skipped ==
    /\ pc = "clkena_off"
    /\ pc' = "upd_write"
    /\ ra' = "clkdiv_write"
    /\ UNCHANGED <<op, args, regs, entryRegs, wlog, reads, timeout, polls, hwLatency,
                   cdBit, hwResp, result, retval>>
    /\ UNCHANGED others
ClockDisable ==
    /\ pc = "clkena_off"
    /\ Write(SDMMC_CLKENA, U32(0))
    /\ pc' = "upd_write"
    /\ ra' = "clkdiv_write"
    /\ UNCHANGED <<op, args, entryRegs, reads, timeout, polls, hwLatency, cdBit,
                   hwResp, result, retval>>
    /\ UNCHANGED others

\* update_clock: the write of the clock-update command (158-162)
UpdateClockWrite ==
    /\ pc = "upd_write"
    /\ Write(SDMMC_CMD, UpdateClockCmd)
    /\ Trigger(UpdateClockBudget)
    /\ pc' = "upd_poll"
    /\ UNCHANGED <<op, ra, args, entryRegs, reads, cdBit, hwResp, result, retval>>
    /\ UNCHANGED others

\* update_clock: what the loop does once its budget is spent (165-167): break
UpdateClockExhausted_Fails == Finish("CommandTimeout")
UpdateClockExhausted_Spins == UNCHANGED <<pc, result>>
UpdateClockExhausted == pc' = ra /\ UNCHANGED result

\* update_clock: one iteration of the polling loop (163-169)
UpdateClockPoll ==
    /\ pc = "upd_poll"
    /\ \E v \in (IF polls < hwLatency THEN CmdPendingValues ELSE CmdDoneValues) :
        IF StartPending(v)
          THEN /\ timeout' = timeout - 1
               /\ IF timeout' = 0
                    THEN UpdateClockExhausted
                    ELSE UNCHANGED <<pc, result>>
          ELSE /\ pc' = ra
               /\ UNCHANGED <<timeout, result>>
    /\ polls' = polls + 1
    /\ CountRead(SDMMC_CMD)
    /\ UNCHANGED <<op, ra, args, regs, entryRegs, wlog, hwLatency, cdBit, hwResp,
                   retval>>
    /\ UNCHANGED others

\* the frequency set_clock runs with: init passes 400 kHz (83)
ClockFreq == IF op = "init" THEN U32(IDENT_FREQ) ELSE args.freq

\* set_clock: compute and write the divisor (138-146)
ClockDivWrite ==
    /\ pc = "clkdiv_write"
    /\ \E d \in ClockDivisor(ClockFreq) :
        IF d.panic
          THEN /\ pc' = "panic"
               /\ result' = "panic"
               /\ UNCHANGED <<regs, wlog>>
          ELSE /\ Write(SDMMC_CLKDIV, d.div)
               /\ pc' = IF op = "divisor" THEN "done" ELSE "clkena_on"
               /\ result' = IF op = "divisor" THEN "Ok" ELSE result
    /\ UNCHANGED <<op, ra, args, entryRegs, reads, timeout, polls, hwLatency, cdBit,
                   hwResp, retval>>
    /\ UNCHANGED others

\* set_clock: enable the clock (149), then update_clock (150)
ClockEnable ==
    /\ pc = "clkena_on"
    /\ Write(SDMMC_CLKENA, U32(1))
    /\ pc' = "upd_write"
    /\ ra' = "ctype_write"
    /\ UNCHANGED <<op, args, entryRegs, reads, timeout, polls, hwLatency, cdBit,
                   hwResp, result, retval>>
    /\ UNCHANGED others

\* the width set_bus_width runs with: init passes 1 (86)
BusWidth == IF op = "init" THEN U32(INIT_BUS_WIDTH) ELSE args.width

\* set_bus_width (173-184)
SetBusWidth ==
    /\ pc = "ctype_write"
    /\ Write(SDMMC_CTYPE, BusWidthEncoding(BusWidth))
    /\ pc' = IF op = "init" THEN "tmout_write" ELSE "done"
    /\ result' = IF op = "init" THEN result ELSE "Ok"
    /\ UNCHANGED <<op, ra, args, entryRegs, reads, timeout, polls, hwLatency, cdBit,
                   hwResp, retval>>
    /\ UNCHANGED others

\* set_timeout (187-192), with init's argument (89)
SetTimeout ==
    /\ pc = "tmout_write"
    /\ Write(SDMMC_TMOUT, U32(INIT_TIMEOUT))
    /\ pc' = "fifoth_write"
    /\ UNCHANGED <<op, ra, args, entryRegs, reads, timeout, polls, hwLatency, cdBit,
                   hwResp, result, retval>>
    /\ UNCHANGED others

\* configure_fifo (195-202), and init's Ok(()) (94)
ConfigureFifo ==
    /\ pc = "fifoth_write"
    /\ Write(SDMMC_FIFOTH, FifoThreshold)
    /\ Finish("Ok")
    /\ UNCHANGED <<op, ra, args, entryRegs, reads, timeout, polls, hwLatency, cdBit,
                   hwResp, retval>>
    /\ UNCHANGED others

\* the caller takes the result; the handle is free for the next call
Return ==
    /\ pc = "done"
    /\ pc' = "idle"
    /\ UNCHANGED <<op, ra, args, regs, entryRegs, wlog, reads, timeout, polls,
                   hwLatency, cdBit, hwResp, result, retval>>
    /\ UNCHANGED others

InitStep ==
    \/ CardDetectRead
    \/ ResetWrite
    \/ ResetPoll
    \/ PowerOn
    \/ ClockDisable
    \/ UpdateClockWrite
    \/ UpdateClockPoll
    \/ ClockDivWrite
    \/ ClockEnable
    \/ SetBusWidth
    \/ SetTimeout
    \/ ConfigureFifo

\* init and card_detect, called any number of times on one handle
Next ==
    \/ CallInit
    \/ CallCardDetect
    \/ InitStep
    \/ Return

Spec == Init /\ [][Next]_vars

(* --------------------------- send_command ----------------------------- *)

\* the command indices and arguments of the calls
CmdInputs == {U32(0), U32(55), U32(63)}
ArgInputs == {U32(426), <<65535, 65535>>}

CallSendCommand ==
    /\ pc = "idle"
    /\ \E c \in CmdInputs, a \in ArgInputs :
        Enter("send_command", [NoArgs EXCEPT !.cmd = c, !.arg = a], "cmdarg_write")

\* send_command: write the argument (217-218)
CmdArgWrite_Skipped ==
    /\ pc = "cmdarg_write"
    /\ pc' = "cmd_write"
    /\ UNCHANGED <<op, ra, args, regs, entryRegs, wlog, reads, timeout, polls,
                   hwLatency, cdBit, hwResp, result, retval>>
    /\ UNCHANGED others
CmdArgWrite ==
    /\ pc = "cmdarg_write"
    /\ Write(SDMMC_CMDARG, args.arg)
    /\ pc' = "cmd_write"
    /\ UNCHANGED <<op, ra, args, entryRegs, reads, timeout, polls, hwLatency, cdBit,
                   hwResp, result, retval>>
    /\ UNCHANGED others

\* send_command: write the command with the start bit (221-225)
CmdWrite ==
    /\ pc = "cmd_write"
    /\ Write(SDMMC_CMD, CommandWord(args.cmd))
    /\ Trigger(CommandBudget)
    /\ pc' = "cmd_poll"
    /\ UNCHANGED <<op, ra, args, entryRegs, reads, cdBit, hwResp, result, retval>>
    /\ UNCHANGED others

\* send_command: what the loop does once its budget is spent (228-230)
CommandExhausted_Retries ==
    /\ pc' = "cmd_write"
    /\ UNCHANGED result
CommandExhausted == Finish("CommandTimeout")

\* send_command: one iteration of the polling loop (226-231)
CmdPoll ==
    /\ pc = "cmd_poll"
    /\ \E v \in (IF polls < hwLatency THEN CmdPendingValues ELSE CmdDoneValues) :
        IF StartPending(v)
          THEN /\ timeout' = timeout - 1
               /\ IF timeout' = 0
                    THEN CommandExhausted
                    ELSE UNCHANGED <<pc, result>>
          ELSE /\ pc' = "resp_read"
               /\ UNCHANGED <<timeout, result>>
    /\ polls' = polls + 1
    /\ CountRead(SDMMC_CMD)
    /\ UNCHANGED <<op, ra, args, regs, entryRegs, wlog, hwLatency, cdBit, hwResp,
                   retval>>
    /\ UNCHANGED others

\* send_command: the value returned for the Response 0 value read (235)
Response_Masked(v) == And32(v, U32(2147483647))
Response(v) == v

\* send_command: read and return Response 0 (234-235)
RespRead ==
    /\ pc = "resp_read"
    /\ \E v \in RespValues :
        /\ hwResp' = v
        /\ retval' = Response(v)
    /\ CountRead(SDMMC_RESP0)
    /\ Finish("Ok")
    /\ UNCHANGED <<op, ra, args, regs, entryRegs, wlog, timeout, polls, hwLatency,
                   cdBit>>
    /\ UNCHANGED others

\* the registers as a successful init leaves them
InitDoneRegs ==
    [r \in WrittenRegs |->
        CASE r = SDMMC_CTRL -> ResetBits
          [] r = SDMMC_PWREN -> U32(1)
          [] r = SDMMC_CLKDIV -> U32(62)
          [] r = SDMMC_CLKENA -> U32(1)
          [] r = SDMMC_TMOUT -> U32(INIT_TIMEOUT)
          [] r = SDMMC_CTYPE -> U32(0)
          [] r = SDMMC_CMDARG -> Zero32
          [] r = SDMMC_CMD -> UpdateClockCmd
          [] r = SDMMC_FIFOTH -> FifoThreshold]

\* one send_command on a controller fresh from reset or brought up by init
InitCmd ==
    /\ pc = "idle"
    /\ op = "none"
    /\ ra = "none"
    /\ args = NoArgs
    /\ regs \in {ResetRegs, InitDoneRegs}
    /\ entryRegs = regs
    /\ wlog = <<>>
    /\ reads = NoReads
    /\ timeout = 0
    /\ polls = 0
    /\ hwLatency = 0
    /\ cdBit = 2
    /\ hwResp = Zero32
    /\ result = "none"
    /\ retval = NoValue
    /\ conc = ConcIdle
    /\ gpio = GpioIdle
    /\ uart = UartIdle

CmdStep ==
    \/ CmdArgWrite
    \/ CmdWrite
    \/ CmdPoll
    \/ RespRead

NextCmd ==
    \/ CallSendCommand
    \/ CmdStep

SpecCmd == InitCmd /\ [][NextCmd]_vars

(* ------------------ set_clock's divisor, set_bus_width ----------------- *)

\* the frequencies and widths the two private functions are applied to
FreqInputs == {U32(0), U32(1), U32(97656), U32(100000), U32(400000), U32(25000000),
               U32(25000001), U32(2147483647), <<32768, 0>>, <<32768, 1>>,
               <<65535, 65535>>}
WidthInputs == {U32(0), U32(1), U32(2), U32(4), U32(8), U32(16), U32(65536),
                <<65535, 65535>>}

\* lines 138-146 of set_clock applied to freq
CallClockDivisor ==
    /\ pc = "idle"
    /\ \E f \in FreqInputs :
        Enter("divisor", [NoArgs EXCEPT !.freq = f], "clkdiv_write")

\* set_bus_width applied to width
CallSetBusWidth ==
    /\ pc = "idle"
    /\ \E w \in WidthInputs :
        Enter("set_bus_width", [NoArgs EXCEPT !.width = w], "ctype_write")

(* ---------------------- read_block / write_block --------------------- *)

\* block addresses the caller passes
BlockInputs == {U32(0), U32(1), <<65535, 65535>>}

\* read_block(block_addr, buffer) is called (240)
CallReadBlock ==
    /\ pc = "idle"
    /\ \E b \in BlockInputs :
        Enter("read_block", [NoArgs EXCEPT !.block_addr = b], "block_body")

\* write_block(block_addr, buffer) is called (247)
CallWriteBlock ==
    /\ pc = "idle"
    /\ \E b \in BlockInputs :
        Enter("write_block", [NoArgs EXCEPT !.block_addr = b], "block_body")

\* the body of either: no register access, no use of the buffer, Ok(()) (243, 249)
BlockStep ==
    /\ pc = "block_body"
    /\ Finish("Ok")
    /\ UNCHANGED <<op, ra, args, regs, entryRegs, wlog, reads, timeout, polls,
                   hwLatency, cdBit, hwResp, retval>>
    /\ UNCHANGED others

(* ------------------------- one call of any kind ----------------------- *)

\* one call on a controller fresh from reset: init, card_detect, send_command,
\* read_block, write_block, or one of the two private computations on an
\* argument of the caller's choice
NextCalls ==
    \/ CallInit
    \/ CallCardDetect
    \/ CallSendCommand
    \/ CallClockDivisor
    \/ CallSetBusWidth
    \/ CallReadBlock
    \/ CallWriteBlock
    \/ InitStep
    \/ CmdStep
    \/ BlockStep

SpecCalls == Init /\ [][NextCalls]_vars

\* the driver runs to the end of a call once it is made: nothing suspends it
FairSpecCalls == SpecCalls /\ WF_vars(InitStep \/ CmdStep \/ BlockStep)

(* ------------- send_command from two execution contexts --------------- *)

\* Two contexts hold the same SdMmc (a base address; &self, no lock) and each
\* calls send_command once, its steps interleaved freely with the other's.
\* The controller takes the Command Argument register's value when the
\* start bit is written, clears the bit when it has run the command, and
\* then shows that command's response.  The loop's count of reads is not
\* kept here: the loop may give up after any read that shows the bit set.

\* a call is between its entry and its return
InFlight(c) == conc.ctx[c].pc \notin {"idle", "done"}

\* send_command(cmd, arg) is called by context c (214); the call overlaps
\* another when the other context is in its own call
ConcCall(c) ==
    /\ conc.ctx[c].pc = "idle"
    /\ \E cmd \in CmdInputs, arg \in ArgInputs :
        conc' = [conc EXCEPT !.ctx =
            [d \in Contexts |->
                IF d = c
                  THEN [CtxIdle EXCEPT !.pc = "cmdarg_write", !.cmd = cmd, !.arg = arg,
                                       !.overlapped = \E o \in Contexts \ {c} : InFlight(o)]
                  ELSE [conc.ctx[d] EXCEPT !.overlapped = @ \/ InFlight(d)]]]
    /\ UNCHANGED <<mmc, gpio, uart>>

\* the argument is written to Command Argument (217-218)
ConcCmdArgWrite_Skipped(c) ==
    /\ conc.ctx[c].pc = "cmdarg_write"
    /\ conc' = [conc EXCEPT !.ctx[c].pc = "cmd_write"]
    /\ UNCHANGED <<mmc, gpio, uart>>
ConcCmdArgWrite(c) ==
    /\ conc.ctx[c].pc = "cmdarg_write"
    /\ conc' = [conc EXCEPT !.cmdarg = conc.ctx[c].arg, !.ctx[c].pc = "cmd_write"]
    /\ UNCHANGED <<mmc, gpio, uart>>

\* CMD_START | cmd is written to Command (221-222): the controller starts the
\* command with the argument the register holds now
ConcCmdWrite(c) ==
    /\ conc.ctx[c].pc = "cmd_write"
    /\ conc' = [conc EXCEPT !.busy = TRUE,
                            !.latched = <<CommandWord(conc.ctx[c].cmd), conc.cmdarg>>,
                            !.ctx[c].paired = conc.cmdarg,
                            !.ctx[c].pc = "cmd_poll"]
    /\ UNCHANGED <<mmc, gpio, uart>>

\* a read of Command shows the start bit clear: the loop ends (226)
ConcCmdPoll(c) ==
    /\ conc.ctx[c].pc = "cmd_poll"
    /\ ~conc.busy
    /\ conc' = [conc EXCEPT !.ctx[c].pc = "resp_read"]
    /\ UNCHANGED <<mmc, gpio, uart>>

\* a read of Command shows the start bit set and the budget is spent (227-230)
ConcCmdExhausted(c) ==
    /\ conc.ctx[c].pc = "cmd_poll"
    /\ conc.busy
    /\ conc' = [conc EXCEPT !.ctx[c].pc = "done", !.ctx[c].result = "CommandTimeout"]
    /\ UNCHANGED <<mmc, gpio, uart>>

\* Response 0 is read and returned (234-235)
ConcRespRead(c) ==
    /\ conc.ctx[c].pc = "resp_read"
    /\ conc' = [conc EXCEPT !.ctx[c].pc = "done", !.ctx[c].result = "Ok",
                            !.ctx[c].respOf = conc.respOf]
    /\ UNCHANGED <<mmc, gpio, uart>>

\* the controller finishes the command it took: the start bit reads clear and
\* Response 0 holds that command's response
HwComplete ==
    /\ conc.busy
    /\ conc' = [conc EXCEPT !.busy = FALSE, !.respOf = conc.latched]
    /\ UNCHANGED <<mmc, gpio, uart>>

NextConc ==
    \/ \E c \in Contexts : ConcCall(c)
    \/ \E c \in Contexts : ConcCmdArgWrite(c)
    \/ \E c \in Contexts : ConcCmdWrite(c)
    \/ \E c \in Contexts : ConcCmdPoll(c)
    \/ \E c \in Contexts : ConcCmdExhausted(c)
    \/ \E c \in Contexts : ConcRespRead(c)
    \/ HwComplete

SpecConc == Init /\ [][NextConc]_vars

(* ------------------------------- GPIO --------------------------------- *)

\* register bases of the five banks and the external port register's offset
GPIO0_BASE == <<64906, 0>>
GPIO1_BASE == <<65218, 0>>
GPIO2_BASE == <<65219, 0>>
GPIO3_BASE == <<65220, 0>>
GPIO4_BASE == <<65221, 0>>
GPIO_EXT_PORT == 80

\* the GpioBank enum
GpioBanks == {"Gpio0", "Gpio1", "Gpio2", "Gpio3", "Gpio4"}

\* u8 bank and pin numbers, and group characters (code points), a caller passes:
\* '@', 'A'..'E', '`', 'a'..'e', NUL, and the non-ASCII U+00C4, U+00E4, U+0410
BankInputs == {0, 1, 2, 3, 4, 5, 255}
PinInputs == {0, 7, 8, 31, 32, 255}
GroupInputs == {0, 64, 65, 66, 67, 68, 69, 96, 97, 98, 99, 100, 101, 196, 228, 1040}

\* values the external port register shows
ExtPortValues == {Zero32, <<0, 128>>, <<32768, 0>>, <<65535, 65535>>}

\* char::to_ascii_uppercase: 'a'..'z' map to 'A'..'Z', every other char to itself
ToAsciiUppercase_Identity(c) == c
ToAsciiUppercase(c) == IF c >= 97 /\ c <= 122 THEN c - 32 ELSE c

\* the match on the bank in GpioPin::new (121-127)
BankBase(bank) ==
    CASE bank = "Gpio0" -> GPIO0_BASE
      [] bank = "Gpio1" -> GPIO1_BASE
      [] bank = "Gpio2" -> GPIO2_BASE
      [] bank = "Gpio3" -> GPIO3_BASE
      [] bank = "Gpio4" -> GPIO4_BASE

\* GpioPin::new(bank, pin): the assert (119), then the struct (129)
GpioPinNew(bank, pin) ==
    IF pin < 32
      THEN [panic |-> FALSE, base |-> BankBase(bank), pin |-> pin]
      ELSE [panic |-> TRUE, base |-> Zero32, pin |-> 0]

\* parse_gpio_name(bank, group, pin): the two asserts (236-237), the match on
\* the bank (239-246), the match on the upper-cased group (248-254), the sum in u8
ParseGpioName(bank, group, pin) ==
    LET failed == [panic |-> TRUE, bank |-> "none", pin |-> 0]
        up == ToAsciiUppercase(group)
    IN  IF ~(bank < 5) THEN failed
        ELSE IF ~(pin < 8) THEN failed
        ELSE LET bank_enum == CASE bank = 0 -> "Gpio0"
                                [] bank = 1 -> "Gpio1"
                                [] bank = 2 -> "Gpio2"
                                [] bank = 3 -> "Gpio3"
                                [] bank = 4 -> "Gpio4"
             IN  IF up \notin {65, 66, 67, 68} THEN failed
                 ELSE LET group_offset == CASE up = 65 -> 0
                                            [] up = 66 -> 8
                                            [] up = 67 -> 16
                                            [] up = 68 -> 24
                      IN  [panic |-> FALSE, bank |-> bank_enum,
                           pin |-> (group_offset + pin) % 256]

\* bit p of a u32
Bit(v, p) == IF p < 16 THEN (v[2] \div (2 ^ p)) % 2 ELSE (v[1] \div (2 ^ (p - 16))) % 2

\* GpioPin::new is called by the caller with a bank and a pin of its choice
CallGpioNew ==
    /\ gpio.pc = "idle"
    /\ \E b \in GpioBanks, p \in PinInputs :
        LET r == GpioPinNew(b, p) IN
        gpio' = [gpio EXCEPT !.op = "new", !.new_bank = b, !.new_pin = p,
                             !.pc = IF r.panic THEN "panic" ELSE "made",
                             !.base = r.base, !.self_pin = r.pin]
    /\ UNCHANGED <<mmc, conc, uart>>

\* parse_gpio_name is called
CallParseGpioName ==
    /\ gpio.pc = "idle"
    /\ \E b \in BankInputs, g \in GroupInputs, p \in PinInputs :
        LET r == ParseGpioName(b, g, p) IN
        gpio' = [gpio EXCEPT !.op = "parse_gpio_name", !.bank = b, !.group = g,
                             !.pin = p,
                             !.pc = IF r.panic THEN "panic" ELSE "parsed",
                             !.ret_bank = r.bank, !.ret_pin = r.pin]
    /\ UNCHANGED <<mmc, conc, uart>>

\* the caller passes what parse_gpio_name returned to GpioPin::new (232-233)
GpioNewParsed ==
    /\ gpio.pc = "parsed"
    /\ LET r == GpioPinNew(gpio.ret_bank, gpio.ret_pin) IN
        gpio' = [gpio EXCEPT !.new_bank = gpio.ret_bank, !.new_pin = gpio.ret_pin,
                             !.pc = IF r.panic THEN "panic" ELSE "made",
                             !.base = r.base, !.self_pin = r.pin]
    /\ UNCHANGED <<mmc, conc, uart>>

\* get_level on the pin made: one read of the external port register (186-196)
GpioGetLevel ==
    /\ gpio.pc = "made"
    /\ \E v \in ExtPortValues :
        gpio' = [gpio EXCEPT !.pc = "done", !.call = "get_level", !.arg = "none",
                             !.val = v,
                             !.log = Append(@, <<"read", gpio.base, GPIO_EXT_PORT>>),
                             !.level = IF Bit(v, gpio.self_pin) # 0 THEN "High"
                                                                  ELSE "Low"]
    /\ UNCHANGED <<mmc, conc, uart>>

NextGpio ==
    \/ CallGpioNew
    \/ CallParseGpioName
    \/ GpioNewParsed
    \/ GpioGetLevel

SpecGpio == Init /\ [][NextGpio]_vars

(* ------------------------ operations on a pin ------------------------- *)

\* the data and direction registers' offsets
GPIO_SWPORT_DR == 0
GPIO_SWPORT_DDR == 4

\* how many calls on a pin return with another call following
MaxReturns == 1

\* u32 complement and exclusive or
Not32(v) == <<65535 - v[1], 65535 - v[2]>>
Xor32(a, b) ==
    <<BitOr(a[1], b[1]) - BitAnd(a[1], b[1]),
      BitOr(a[2], b[2]) - BitAnd(a[2], b[2])>>

\* val |= 1 << pin, val &= !(1 << pin), val ^= 1 << pin
SetBit(val, pin) == Or32(val, Shl32(1, pin))
ClearBit_NotInverted(val, pin) == And32(val, Shl32(1, pin))
ClearBit(val, pin) == And32(val, Not32(Shl32(1, pin)))
ToggleBit(val, pin) == Xor32(val, Shl32(1, pin))

\* the pins GpioPin::new accepts, among those tried, and the values the data
\* and direction registers hold when the first call is made
GpioPins == {p \in PinInputs \cup {15, 16} : ~GpioPinNew("Gpio0", p).panic}
PortValues == {Zero32, <<65535, 65535>>, <<32768, 1>>, <<1, 32768>>}

\* a pin made by GpioPin::new, the registers as earlier software left them
InitGpioPin ==
    /\ pc = "idle"
    /\ op = "none"
    /\ ra = "none"
    /\ args = NoArgs
    /\ regs = ResetRegs
    /\ entryRegs = ResetRegs
    /\ wlog = <<>>
    /\ reads = NoReads
    /\ timeout = 0
    /\ polls = 0
    /\ hwLatency = 0
    /\ cdBit = 2
    /\ hwResp = Zero32
    /\ result = "none"
    /\ retval = NoValue
    /\ conc = ConcIdle
    /\ uart = UartIdle
    /\ \E b \in GpioBanks, p \in GpioPins, v \in PortValues, w \in PortValues :
        gpio = [GpioIdle EXCEPT !.pc = "made", !.op = "new", !.new_bank = b,
                                !.new_pin = p, !.base = GpioPinNew(b, p).base,
                                !.self_pin = GpioPinNew(b, p).pin,
                                !.dr = v, !.ddr = w, !.entry_dr = v, !.entry_ddr = w]

\* set_direction(direction) is called (141)
CallSetDirection ==
    /\ gpio.pc = "made"
    /\ \E d \in {"Input", "Output"} :
        gpio' = [gpio EXCEPT !.pc = "rmw_read", !.call = "set_direction", !.arg = d]
    /\ UNCHANGED <<mmc, conc, uart>>

\* set_level(level) is called (163)
CallSetLevel ==
    /\ gpio.pc = "made"
    /\ \E l \in {"Low", "High"} :
        gpio' = [gpio EXCEPT !.pc = "rmw_read", !.call = "set_level", !.arg = l]
    /\ UNCHANGED <<mmc, conc, uart>>

\* toggle() is called (205)
CallToggle ==
    /\ gpio.pc = "made"
    /\ gpio' = [gpio EXCEPT !.pc = "rmw_read", !.call = "toggle", !.arg = "none"]
    /\ UNCHANGED <<mmc, conc, uart>>

\* the register a call reads and writes (142, 164, 206)
PinRegister(call) == IF call = "set_direction" THEN GPIO_SWPORT_DDR ELSE GPIO_SWPORT_DR

\* the read of the register (144, 166, 208)
GpioRead ==
    /\ gpio.pc = "rmw_read"
    /\ gpio' = [gpio EXCEPT !.pc = "rmw_write",
                            !.val = IF PinRegister(gpio.call) = GPIO_SWPORT_DDR
                                      THEN gpio.ddr ELSE gpio.dr,
                            !.log = Append(@, <<"read", gpio.base, PinRegister(gpio.call)>>)]
    /\ UNCHANGED <<mmc, conc, uart>>

\* the value a call computes from the value read (145-148, 167-170, 209)
PinValue(call, arg, val, pin) ==
    CASE call = "set_direction" /\ arg = "Output" -> SetBit(val, pin)
      [] call = "set_direction" /\ arg = "Input" -> ClearBit(val, pin)
      [] call = "set_level" /\ arg = "High" -> SetBit(val, pin)
      [] call = "set_level" /\ arg = "Low" -> ClearBit(val, pin)
      [] call = "toggle" -> ToggleBit(val, pin)

\* the write of the computed value to the same register (149, 171, 210)
GpioWrite ==
    /\ gpio.pc = "rmw_write"
    /\ LET new == PinValue(gpio.call, gpio.arg, gpio.val, gpio.self_pin) IN
        gpio' = [gpio EXCEPT !.pc = "done",
                             !.ddr = IF PinRegister(gpio.call) = GPIO_SWPORT_DDR
                                       THEN new ELSE @,
                             !.dr = IF PinRegister(gpio.call) = GPIO_SWPORT_DR
                                      THEN new ELSE @,
                             !.log = Append(@, <<"write", gpio.base, PinRegister(gpio.call)>>)]
    /\ UNCHANGED <<mmc, conc, uart>>

\* the call returns and the caller may make the next one
GpioReturn ==
    /\ gpio.pc = "done"
    /\ gpio.returns < MaxReturns
    /\ gpio' = [gpio EXCEPT !.pc = "made", !.returns = @ + 1, !.log = <<>>,
                            !.prev_call = gpio.call, !.prev_arg = gpio.arg,
                            !.prev_dr = gpio.entry_dr, !.prev_ddr = gpio.entry_ddr,
                            !.entry_dr = gpio.dr, !.entry_ddr = gpio.ddr]
    /\ UNCHANGED <<mmc, conc, uart>>

NextGpioPin ==
    \/ CallSetDirection
    \/ CallSetLevel
    \/ CallToggle
    \/ GpioRead
    \/ GpioWrite
    \/ GpioGetLevel
    \/ GpioReturn

SpecGpioPin == InitGpioPin /\ [][NextGpioPin]_vars

(* ------------------------------- UART --------------------------------- *)

\* the transmit holding and line status registers, and the THRE bit
UART_THR == 0
UART_LSR == 20
LSR_THRE == Shl32(1, 5)

\* the longest string passed to puts, and the most reads of a putc that show
\* the holding register still full
MaxLen == 3
MaxSpin == 1

\* bytes of the strings: line feed, carriage return, 'A'
ByteInputs == {10, 13, 65}
Strings == UNION {[1 .. n -> ByteInputs] : n \in 0 .. MaxLen}

\* values the line status register shows: THRE clear, THRE set
LsrBusyValues == {Zero32, <<65535, 65503>>}
LsrReadyValues == {U32(32), <<65535, 65535>>}

\* putc's loop condition, negated (166)
ThrEmpty(v) == And32(v, LSR_THRE) # Zero32

\* puts's test of a byte (204)
IsLineFeed_Cr(byte) == byte = 13
IsLineFeed(byte) == byte = 10

\* puts(s) is called (202)
CallPuts ==
    /\ uart.pc = "idle"
    /\ \E s \in Strings : uart' = [UartIdle EXCEPT !.pc = "loop", !.s = s, !.i = 1]
    /\ UNCHANGED <<mmc, conc, gpio>>

\* puts: the loop over s.bytes() calls putc('\r') before a line feed, then
\* putc(byte) (203-208)
PutsNext ==
    /\ uart.pc = "loop"
    /\ IF uart.i > Len(uart.s)
         THEN uart' = [uart EXCEPT !.pc = "done"]
         ELSE IF IsLineFeed(uart.s[uart.i]) /\ uart.stage # "after_cr"
           THEN uart' = [uart EXCEPT !.pc = "putc_wait", !.byte = 13, !.stage = "cr",
                                     !.lsr = NoValue, !.spins = 0]
           ELSE uart' = [uart EXCEPT !.pc = "putc_wait", !.byte = uart.s[uart.i],
                                     !.stage = "byte", !.lsr = NoValue, !.spins = 0]
    /\ UNCHANGED <<mmc, conc, gpio>>

\* putc: one read of the line status register in the wait loop (166-168)
PutcRead ==
    /\ uart.pc = "putc_wait"
    /\ \E v \in (IF uart.spins < MaxSpin THEN LsrBusyValues \cup LsrReadyValues
                                         ELSE LsrReadyValues) :
        IF ThrEmpty(v)
          THEN uart' = [uart EXCEPT !.lsr = <<UART_LSR, v>>, !.pc = "putc_write"]
          ELSE uart' = [uart EXCEPT !.lsr = <<UART_LSR, v>>, !.spins = @ + 1]
    /\ UNCHANGED <<mmc, conc, gpio>>

\* putc: the write of the byte, as u32, to the holding register (171-172), and
\* the return to puts
PutcWrite ==
    /\ uart.pc = "putc_write"
    /\ uart' = [uart EXCEPT !.out = Append(@, <<UART_THR, U32(uart.byte)>>),
                            !.seen = Append(@, uart.lsr),
                            !.pc = "loop",
                            !.stage = IF uart.stage = "cr" THEN "after_cr" ELSE "none",
                            !.i = IF uart.stage = "cr" THEN @ ELSE @ + 1]
    /\ UNCHANGED <<mmc, conc, gpio>>

NextUart ==
    \/ CallPuts
    \/ PutsNext
    \/ PutcRead
    \/ PutcWrite

SpecUart == Init /\ [][NextUart]_vars

(* ------------------------------ claims -------------------------------- *)

\* the call has returned (and the caller may have taken the result)
Returned == pc \in {"done", "idle"} /\ op # "none"

\* the offsets written by the call, in order
WrittenOffsets == [i \in 1 .. Len(wlog) |-> wlog[i][1]]

\* the registers other than those of `offs` hold what they held at the call's entry
UnchangedExcept(offs) == \A r \in WrittenRegs \ offs : regs[r] = entryRegs[r]

\* C1: an init whose read of Card Detect shows bit 0 set returns CardNotPresent
\* having read Card Detect once and written no register at all.
C1_NoCardNoWrite ==
    (op = "init" /\ cdBit = 1) =>
        /\ Returned
        /\ result = "CardNotPresent"
        /\ wlog = <<>>
        /\ regs = entryRegs
        /\ reads = [NoReads EXCEPT ![SDMMC_CDETECT] = 1]

\* C1's case: init returns with no card, on a controller an earlier init configured
C1_Witness ==
    /\ op = "init"
    /\ pc = "done"
    /\ cdBit = 1
    /\ result = "CardNotPresent"
    /\ entryRegs[SDMMC_PWREN] = U32(1)

\* C2: with a card present init writes 0x7 to Control before it polls it; it
\* returns ResetTimeout only when the first 10000 reads of Control all showed a
\* reset bit set, and then after exactly 10000 reads; it leaves the reset step
\* for the power step exactly when one of the first 10000 reads showed the three
\* bits clear, at that read.
C2_ResetTimeoutExact ==
    op = "init" =>
        /\ (pc = "reset_poll" \/ reads[SDMMC_CTRL] > 0) =>
              /\ cdBit = 0
              /\ wlog[1] = <<SDMMC_CTRL, U32(7)>>
        /\ pc = "reset_poll" => (Len(wlog) = 1 /\ polls <= hwLatency /\ polls < 10000)
        /\ result = "ResetTimeout" =>
              /\ Returned
              /\ hwLatency >= 10000
              /\ reads[SDMMC_CTRL] = 10000
        /\ pc = "pwren_write" =>
              /\ hwLatency < 10000
              /\ reads[SDMMC_CTRL] = hwLatency + 1

\* C2's case: the reset bits never cleared and init has returned ResetTimeout
C2_Witness ==
    /\ op = "init"
    /\ pc = "done"
    /\ result = "ResetTimeout"
    /\ reads[SDMMC_CTRL] = 10000

\* C3: a send_command whose start bit is seen clear at a poll within the budget
\* returns Ok with exactly the value read from Response 0, read once, after the
\* poll that saw the completion.
C3_ResponseVerbatim ==
    op = "send_command" =>
        /\ (pc = "done" /\ hwLatency < 10000) =>
              /\ result = "Ok"
              /\ retval = hwResp
              /\ reads[SDMMC_RESP0] = 1
        /\ reads[SDMMC_RESP0] > 0 =>
              /\ pc = "done"
              /\ reads[SDMMC_CMD] = hwLatency + 1

\* C3's case: completion seen at the last poll of the budget, a response with
\* every bit set returned
C3_Witness ==
    /\ op = "send_command"
    /\ pc = "done"
    /\ result = "Ok"
    /\ reads[SDMMC_CMD] = 10000
    /\ hwResp = <<65535, 65535>>
    /\ retval = <<65535, 65535>>

\* C4: a send_command whose 10000 polls all show the start bit set returns
\* CommandTimeout after exactly 10000 polls, with no read of a response
\* register and no value; CommandTimeout is returned in no other case.
C4_CommandTimeoutExact ==
    op = "send_command" =>
        /\ (pc = "done" /\ hwLatency >= 10000) =>
              /\ result = "CommandTimeout"
              /\ reads[SDMMC_CMD] = 10000
              /\ reads[SDMMC_RESP0] = 0
              /\ retval = NoValue
        /\ result = "CommandTimeout" =>
              /\ pc = "done"
              /\ hwLatency >= 10000
              /\ reads[SDMMC_CMD] = 10000

\* C4's case: the start bit never cleared and send_command has returned
C4_Witness ==
    /\ op = "send_command"
    /\ pc = "done"
    /\ result = "CommandTimeout"
    /\ polls = 10000

\* C5: in a send_command(index, arg) with index in 0..63 the first write is arg
\* to Command Argument, the second is 0x80000000 | index to Command, no read of
\* Command precedes the second, and from that write on Command Argument holds arg.
C5_ArgumentBeforeTrigger ==
    (op = "send_command" /\ args.cmd[1] = 0 /\ args.cmd[2] \in 0 .. 63) =>
        /\ Len(wlog) >= 1 => wlog[1] = <<SDMMC_CMDARG, args.arg>>
        /\ Len(wlog) >= 2 =>
              /\ wlog[2] = <<SDMMC_CMD, <<32768, args.cmd[2]>>>>
              /\ regs[SDMMC_CMDARG] = args.arg
        /\ reads[SDMMC_CMD] > 0 => Len(wlog) >= 2
        /\ pc \in {"cmd_poll", "resp_read", "done"} => Len(wlog) >= 2

\* C5's case: the start bit has just been written, nothing polled yet, and the
\* argument register holds the call's argument, not what it held before
C5_Witness ==
    /\ op = "send_command"
    /\ pc = "cmd_poll"
    /\ polls = 0
    /\ regs[SDMMC_CMD] = <<32768, 55>>
    /\ regs[SDMMC_CMDARG] = <<65535, 65535>>
    /\ entryRegs[SDMMC_CMDARG] # <<65535, 65535>>

\* C6: a send_command writes Command Argument once and then Command once, on
\* the success path and on the CommandTimeout path, and leaves every other
\* register as it was.
C6_OneTransaction ==
    op = "send_command" =>
        /\ Len(wlog) <= 2
        /\ UnchangedExcept({SDMMC_CMDARG, SDMMC_CMD})
        /\ pc = "done" =>
              /\ WrittenOffsets = <<SDMMC_CMDARG, SDMMC_CMD>>
              /\ result \in {"Ok", "CommandTimeout"}

\* C6's case: a timed-out send_command on a controller init had configured
C6_Witness ==
    /\ op = "send_command"
    /\ pc = "done"
    /\ result = "CommandTimeout"
    /\ entryRegs = InitDoneRegs
    /\ regs[SDMMC_TMOUT] = U32(INIT_TIMEOUT)

\* the registers steps 3-7 of init write
Steps3to7 == {SDMMC_PWREN, SDMMC_CLKENA, SDMMC_CLKDIV, SDMMC_CTYPE, SDMMC_TMOUT,
              SDMMC_FIFOTH}

\* C7: init returns nothing but Ok, CardNotPresent and ResetTimeout; an error
\* is returned only before the power step (at most the reset write done); an
\* init that got past the reset step returns Ok having written every register
\* of steps 3-7, with the clock left enabled, whatever the two clock-update
\* handshakes did.
C7_NoFailureAfterReset ==
    op = "init" =>
        /\ pc # "panic"
        /\ result \in {"none", "Ok", "CardNotPresent", "ResetTimeout"}
        /\ result \in {"CardNotPresent", "ResetTimeout"} => Len(wlog) <= 1
        /\ (result = "none" /\ Len(wlog) > 1) => pc \notin {"done", "idle"}
        /\ result = "Ok" =>
              /\ Returned
              /\ \A r \in Steps3to7 : \E i \in 1 .. Len(wlog) : wlog[i][1] = r
              /\ regs[SDMMC_CLKENA] = U32(1)
              /\ reads[SDMMC_CMD] >= 2

\* C7's case: both clock-update handshakes ran out of budget and init returned Ok
C7_Witness ==
    /\ op = "init"
    /\ pc = "done"
    /\ result = "Ok"
    /\ reads[SDMMC_CMD] = 20000

\* the reads a call may make: init one of Card Detect, 10000 of Control and
\* 2 x 10000 of Command; send_command 10000 of Command and one of Response 0
ReadBounds ==
    /\ op = "init" =>
          /\ reads[SDMMC_CDETECT] <= 1
          /\ reads[SDMMC_CTRL] <= 10000
          /\ reads[SDMMC_CMD] <= 2 * 10000
          /\ reads[SDMMC_RESP0] = 0
    /\ op = "send_command" =>
          /\ reads[SDMMC_CDETECT] = 0
          /\ reads[SDMMC_CTRL] = 0
          /\ reads[SDMMC_CMD] <= 10000
          /\ reads[SDMMC_RESP0] <= 1

\* C8: whatever the registers show, a call of init or send_command returns,
\* and it never makes more reads than its loops' budgets allow.
C8_Terminates ==
    /\ []ReadBounds
    /\ (op \in {"init", "send_command"}) ~> (pc = "done")

\* C8's case: an init that made every read its budgets allow and returned
C8_Witness ==
    /\ op = "init"
    /\ pc = "done"
    /\ reads[SDMMC_CDETECT] = 1
    /\ reads[SDMMC_CTRL] = 10000
    /\ reads[SDMMC_CMD] = 20000

\* floor(50_000_000 / (2 f)) & 0xFF for a u32 f > 0 (the quotient is 0 from 2^30 on)
FloorDivisor(f) ==
    IF f[1] >= 16384 THEN 0 ELSE (50000000 \div (2 * ToInt(f))) % 256

\* the values the call wrote to the register at off, in order
ValuesWritten(off) == [i \in {j \in 1 .. Len(wlog) : wlog[j][1] = off} |-> wlog[i][2]]

C9_DivisorBelowOverflow ==
    /\ (op = "divisor" /\ args.freq # Zero32 /\ args.freq[1] < 32768) =>
          /\ pc # "panic"
          /\ pc = "done" => wlog = << <<SDMMC_CLKDIV, U32(FloorDivisor(args.freq))>> >>
    /\ (op = "init" /\ result = "Ok") =>
          \E i \in 1 .. Len(wlog) : wlog[i] = <<SDMMC_CLKDIV, U32(62)>>

\* the encoding C10 states
WidthCode(w) ==
    CASE w = <<0, 1>> -> <<0, 0>>
      [] w = <<0, 4>> -> <<0, 1>>
      [] w = <<0, 8>> -> <<1, 0>>
      [] OTHER -> <<0, 0>>

\* C10: set_bus_width(width) writes Bus Type once, with 0x0 for width 1, 0x1 for
\* 4, 0x10000 for 8 and 0x0 for any other width, and does not fail; init writes 0x0.
C10_BusWidthEncoding ==
    /\ (op = "set_bus_width" /\ pc = "done") =>
          /\ result = "Ok"
          /\ wlog = << <<SDMMC_CTYPE, WidthCode(args.width)>> >>
    /\ op = "init" =>
          /\ \A i \in DOMAIN ValuesWritten(SDMMC_CTYPE) :
                ValuesWritten(SDMMC_CTYPE)[i] = <<0, 0>>
          /\ result = "Ok" => Cardinality(DOMAIN ValuesWritten(SDMMC_CTYPE)) = 1

\* C10's case: width 8 requested, 0x10000 written
C10_Witness ==
    /\ op = "set_bus_width"
    /\ pc = "done"
    /\ args.width = <<0, 8>>
    /\ regs[SDMMC_CTYPE] = <<1, 0>>

\* C11: a successful init has written to Timeout the largest value the 32-bit
\* register holds, 0xFFFFFFFF.
C11_TimeoutMaximum ==
    (op = "init" /\ result = "Ok") =>
        \E i \in 1 .. Len(wlog) : wlog[i] = <<SDMMC_TMOUT, <<65535, 65535>>>>

\* C12: the value init writes to FIFO Threshold, once, is (2<<28) | (7<<16) | 8:
\* 7 in bits [23:16], 8 in bits [7:0], 2 in bits [30:28], every other bit zero.
C12_FifoPacking ==
    op = "init" =>
        /\ \A i \in DOMAIN ValuesWritten(SDMMC_FIFOTH) :
              LET v == ValuesWritten(SDMMC_FIFOTH)[i] IN
              /\ v[1] % 256 = 7
              /\ v[2] % 256 = 8
              /\ (v[1] \div 4096) % 8 = 2
              /\ v = <<2 * 4096 + 7, 8>>
        /\ result = "Ok" => Cardinality(DOMAIN ValuesWritten(SDMMC_FIFOTH)) = 1

\* C12's case: init has returned Ok and FIFO Threshold holds 0x20070008
C12_Witness ==
    /\ op = "init"
    /\ pc = "done"
    /\ result = "Ok"
    /\ regs[SDMMC_FIFOTH] = <<8199, 8>>
    /\ entryRegs[SDMMC_FIFOTH] = <<0, 0>>

\* C13: the driver performs the identification handshake: an init that returns
\* Ok has issued command index 0 with argument 0 (then 8, then 55/41), and the
\* handshake's failures are returned as InitFailed or UnsupportedCard.
C13_IdentificationIssued ==
    op = "init" =>
        /\ result \in {"none", "Ok", "CardNotPresent", "ResetTimeout", "InitFailed",
                       "UnsupportedCard"}
        /\ result = "Ok" =>
              \E i \in 1 .. Len(wlog) - 1 :
                  /\ wlog[i] = <<SDMMC_CMDARG, <<0, 0>>>>
                  /\ wlog[i + 1] = <<SDMMC_CMD, <<32768, 0>>>>

\* C14: a read_block or write_block that returns Ok(()) has performed the
\* hardware transfer of the block: it accessed the controller's registers.
C14_BlockTransferred ==
    (op \in {"read_block", "write_block"} /\ pc = "done" /\ result = "Ok") =>
        (wlog # <<>> \/ reads # NoReads \/ regs # entryRegs)

\* the order of init's writes
InitOrder ==
    <<SDMMC_CTRL, SDMMC_PWREN, SDMMC_CLKENA, SDMMC_CMD, SDMMC_CLKDIV, SDMMC_CLKENA,
      SDMMC_CMD, SDMMC_CTYPE, SDMMC_TMOUT, SDMMC_FIFOTH>>

\* C18: the writes of an init are, in this order and with nothing between them,
\* Control (0x7), Power Enable (1), Clock Enable (0), Command (clock update),
\* Clock Divider, Clock Enable (1), Command (clock update), Bus Type, Timeout,
\* FIFO Threshold, all ten on success; the Card Detect read precedes them, the
\* power-enable write follows a Control read that showed the reset bits clear,
\* and the divisor is written while Clock Enable holds 0.
C18_WriteOrder ==
    op = "init" =>
        /\ Len(wlog) <= 10
        /\ WrittenOffsets = SubSeq(InitOrder, 1, Len(wlog))
        /\ result = "Ok" => Len(wlog) = 10
        /\ Len(wlog) >= 1 => (wlog[1][2] = <<0, 7>> /\ reads[SDMMC_CDETECT] = 1)
        /\ Len(wlog) >= 2 => (wlog[2][2] = <<0, 1>> /\ reads[SDMMC_CTRL] >= 1)
        /\ Len(wlog) >= 3 => wlog[3][2] = <<0, 0>>
        /\ Len(wlog) >= 4 => wlog[4][2] = <<32768 + 32, 8192>>
        /\ Len(wlog) >= 6 => wlog[6][2] = <<0, 1>>
        /\ Len(wlog) >= 7 => wlog[7][2] = <<32768 + 32, 8192>>
        /\ pc = "clkena_off" => (hwLatency < 10000 /\ reads[SDMMC_CTRL] = hwLatency + 1)
        /\ Len(wlog) = 5 => regs[SDMMC_CLKENA] = <<0, 0>>

\* C18's case: a successful init on a controller whose clock an earlier init
\* had left enabled
C18_Witness ==
    /\ op = "init"
    /\ pc = "done"
    /\ result = "Ok"
    /\ Len(wlog) = 10
    /\ entryRegs[SDMMC_CLKENA] = <<0, 1>>

\* C19: an init that fails with ResetTimeout has returned after one write, the
\* reset write to Control, and every other register holds what it held.
C19_ResetTimeoutFrame ==
    (op = "init" /\ result = "ResetTimeout") =>
        /\ Returned
        /\ wlog = << <<SDMMC_CTRL, <<0, 7>>>> >>
        /\ UnchangedExcept({SDMMC_CTRL})
        /\ regs[SDMMC_CTRL] = <<0, 7>>

\* C19's case: ResetTimeout on a controller an earlier init had configured
C19_Witness ==
    /\ op = "init"
    /\ pc = "done"
    /\ result = "ResetTimeout"
    /\ entryRegs[SDMMC_PWREN] = <<0, 1>>
    /\ regs[SDMMC_FIFOTH] = <<8199, 8>>

\* C20: whatever calls came before (whatever the registers hold at entry), an
\* init has read Card Detect in this call and its result is decided by this
\* call's reads: CardNotPresent when bit 0 was set; otherwise the reset is
\* issued again and the result is ResetTimeout only when the reset bits stayed
\* set for the whole budget, else Ok; card_detect returns what its own read shows.
C20_NoCardStateKept ==
    /\ (op = "init" /\ Returned) =>
          /\ reads[SDMMC_CDETECT] = 1
          /\ cdBit = 1 => result = "CardNotPresent"
          /\ cdBit = 0 =>
                /\ wlog[1] = <<SDMMC_CTRL, <<0, 7>>>>
                /\ reads[SDMMC_CTRL] >= 1
                /\ result \in {"Ok", "ResetTimeout"}
                /\ result = "ResetTimeout" => hwLatency >= 10000
                /\ Len(wlog) = 1 => (result = "ResetTimeout" /\ hwLatency >= 10000)
    /\ (op = "card_detect" /\ Returned) =>
          /\ reads[SDMMC_CDETECT] = 1
          /\ result = (IF cdBit = 0 THEN "true" ELSE "false")
          /\ wlog = <<>>

\* C20's case: an init returns Ok on a handle whose earlier init had failed
\* with ResetTimeout and never succeeded (Control was written, the power never)
C20_Witness ==
    /\ op = "init"
    /\ pc = "done"
    /\ result = "Ok"
    /\ entryRegs[SDMMC_CTRL] = <<0, 7>>
    /\ entryRegs[SDMMC_PWREN] = <<0, 0>>

\* the group letters and their offsets, as the pin naming rule gives them
GroupOffsets ==
    [g \in {65, 66, 67, 68, 97, 98, 99, 100} |->
        IF g \in {65, 97} THEN 0 ELSE IF g \in {66, 98} THEN 8
        ELSE IF g \in {67, 99} THEN 16 ELSE 24]

\* C16: GpioPin::new panics exactly when pin >= 32; parse_gpio_name panics
\* exactly when bank >= 5, pin >= 8 or the group is none of A/B/C/D in either
\* case; otherwise it returns the bank of that number and group_offset + pin,
\* below 32, which GpioPin::new accepts; a panicked call accessed no register.
C16_GpioArguments ==
    /\ gpio.op = "new" => (gpio.pc = "panic" <=> gpio.new_pin >= 32)
    /\ gpio.op = "parse_gpio_name" =>
          /\ gpio.pc = "panic" <=>
                \/ gpio.bank >= 5
                \/ gpio.pin >= 8
                \/ gpio.group \notin DOMAIN GroupOffsets
          /\ gpio.pc # "panic" =>
                /\ gpio.ret_bank = <<"Gpio0", "Gpio1", "Gpio2", "Gpio3", "Gpio4">>[gpio.bank + 1]
                /\ gpio.ret_pin = GroupOffsets[gpio.group] + gpio.pin
                /\ gpio.ret_pin < 32
    /\ gpio.pc \in {"made", "done"} =>
          /\ gpio.self_pin = gpio.new_pin
          /\ gpio.self_pin < 32
          /\ gpio.base = [Gpio0 |-> <<64906, 0>>, Gpio1 |-> <<65218, 0>>,
                          Gpio2 |-> <<65219, 0>>, Gpio3 |-> <<65220, 0>>,
                          Gpio4 |-> <<65221, 0>>][gpio.new_bank]
    /\ gpio.pc = "panic" => gpio.log = <<>>

\* C16's case: parse_gpio_name(4, 'd', 7) gave pin 31 of bank 4, GpioPin::new
\* accepted it and the pin has been read
C16_Witness ==
    /\ gpio.op = "parse_gpio_name"
    /\ gpio.bank = 4
    /\ gpio.group = 100
    /\ gpio.pin = 7
    /\ gpio.pc = "done"
    /\ gpio.self_pin = 31
    /\ Len(gpio.log) = 1

\* the bytes of s with a carriage return before every line feed
RECURSIVE WithCarriageReturns(_)
WithCarriageReturns(s) ==
    IF s = <<>> THEN <<>>
    ELSE (IF Head(s) = 10 THEN <<13, 10>> ELSE <<Head(s)>>)
            \o WithCarriageReturns(Tail(s))

\* C17: what puts(s) writes to the holding register is, at every moment, a
\* prefix of the bytes of s with 0x0D inserted before every 0x0A, all of it
\* when puts returns; and every byte was written after a read of the line
\* status register, in the same putc, that showed bit 5 set.
C17_PutsBytes ==
    uart.pc # "idle" =>
        LET e == WithCarriageReturns(uart.s) IN
        /\ Len(uart.out) <= Len(e)
        /\ \A k \in 1 .. Len(uart.out) : uart.out[k] = <<0, <<0, e[k]>>>>
        /\ uart.pc = "done" => Len(uart.out) = Len(e)
        /\ Len(uart.seen) = Len(uart.out)
        /\ \A k \in 1 .. Len(uart.seen) :
              /\ Len(uart.seen[k]) = 2
              /\ uart.seen[k][1] = 20
              /\ (uart.seen[k][2][2] \div 32) % 2 = 1

\* C17's case: puts("\n\r\n") has returned after five writes, the last of them
\* after one read that showed THRE clear and one that showed it set
C17_Witness ==
    /\ uart.pc = "done"
    /\ uart.s = <<10, 13, 10>>
    /\ [k \in 1 .. Len(uart.out) |-> uart.out[k][2][2]] = <<13, 10, 13, 13, 10>>
    /\ uart.spins = 1
    /\ uart.seen[5] = <<20, <<65535, 65535>>>>

\* C15: a send_command that overlapped no other call on the controller has, at
\* its start-bit write, found its own argument in Command Argument, and the
\* response it returns is that of its own command with its own argument.
C15_SerializedPairing ==
    \A c \in Contexts :
        ~conc.ctx[c].overlapped =>
            /\ conc.ctx[c].pc \in {"cmd_poll", "resp_read", "done"} =>
                  conc.ctx[c].paired = conc.ctx[c].arg
            /\ conc.ctx[c].result = "Ok" =>
                  conc.ctx[c].respOf =
                      <<<<32768 + conc.ctx[c].cmd[1], conc.ctx[c].cmd[2]>>, conc.ctx[c].arg>>

\* C15's case without serialization: two calls overlap and context 1's
\* start-bit write finds the argument of context 2's call, not its own
C15_Witness ==
    /\ conc.ctx[1].overlapped
    /\ conc.ctx[2].overlapped
    /\ conc.ctx[1].pc = "cmd_poll"
    /\ InFlight(2)
    /\ conc.ctx[1].paired = conc.ctx[2].arg
    /\ conc.ctx[1].paired # conc.ctx[1].arg

\* the serialized case is reached too: context 2 called after context 1 had
\* returned, with another argument, and each got the response of its own command
C15_SerializedReached ==
    /\ ~conc.ctx[1].overlapped
    /\ ~conc.ctx[2].overlapped
    /\ conc.ctx[1].result = "Ok"
    /\ conc.ctx[2].result = "Ok"
    /\ conc.ctx[1].arg # conc.ctx[2].arg
    /\ conc.ctx[1].respOf # conc.ctx[2].respOf

\* bit q of the u32 v is b, for q other than p the bit of w
OnlyBitChanged(v, w, p, b) ==
    \A q \in 0 .. 31 : Bit(v, q) = (IF q = p THEN b ELSE Bit(w, q))

\* C21: set_direction, set_level and toggle have, on return, made one read and
\* then one write of one register (direction for set_direction, data for the
\* other two), the other register untouched; the register holds the value read
\* with only bit p changed: 1 for Output/High, 0 for Input/Low, the inverse
\* for toggle. A toggle after a toggle restores the data register, a repeated
\* set_level or set_direction changes nothing. get_level makes one read of the
\* external port, no write, and returns High iff bit p of the value is set.
C21_PinOperations ==
    LET p == gpio.self_pin
        isDdr == gpio.call = "set_direction"
        reg == IF isDdr THEN gpio.ddr ELSE gpio.dr
        off == IF isDdr THEN 4 ELSE 0
    IN
    /\ (gpio.pc = "done" /\ gpio.call \in {"set_direction", "set_level", "toggle"}) =>
          /\ gpio.log = <<<<"read", gpio.base, off>>, <<"write", gpio.base, off>>>>
          /\ gpio.val = (IF isDdr THEN gpio.entry_ddr ELSE gpio.entry_dr)
          /\ isDdr => gpio.dr = gpio.entry_dr
          /\ ~isDdr => gpio.ddr = gpio.entry_ddr
          /\ gpio.arg \in {"Output", "High"} => OnlyBitChanged(reg, gpio.val, p, 1)
          /\ gpio.arg \in {"Input", "Low"} => OnlyBitChanged(reg, gpio.val, p, 0)
          /\ gpio.call = "toggle" => OnlyBitChanged(reg, gpio.val, p, 1 - Bit(gpio.val, p))
          /\ (gpio.call = "toggle" /\ gpio.prev_call = "toggle") => gpio.dr = gpio.prev_dr
          /\ (gpio.call # "toggle" /\ gpio.prev_call = gpio.call /\ gpio.prev_arg = gpio.arg) =>
                (gpio.dr = gpio.entry_dr /\ gpio.ddr = gpio.entry_ddr)
    /\ (gpio.pc = "done" /\ gpio.call = "get_level") =>
          /\ gpio.log = <<<<"read", gpio.base, 80>>>>
          /\ gpio.dr = gpio.entry_dr
          /\ gpio.ddr = gpio.entry_ddr
          /\ gpio.level = "High" <=> Bit(gpio.val, p) = 1
          /\ gpio.level = "Low" <=> Bit(gpio.val, p) = 0

\* C21's case: on pin 31 the second of two toggles has returned; the data
\* register, 0x80000001 before the first and 0x00000001 between them, holds
\* 0x80000001 again
C21_Witness ==
    /\ gpio.pc = "done"
    /\ gpio.self_pin = 31
    /\ gpio.call = "toggle"
    /\ gpio.prev_call = "toggle"
    /\ gpio.prev_dr = <<32768, 1>>
    /\ gpio.entry_dr = <<0, 1>>
    /\ gpio.dr = <<32768, 1>>

====
